---------------------------- MODULE Spec2Model ----------------------------
(***************************************************************************)
(* A model of scripts/generate_sitemap.py: the sitemap generator of the    *)
(* patch finder.  A Python str is a sequence of one-character strings; the *)
(* empty str is <<>>.  The pure helpers (slugify_patch_name, tokenize_csv, *)
(* parse_release_date, quote) are operators computed as the code computes  *)
(* them; main() is a state machine: read, one step per group and per       *)
(* record of build_entries' loops, the sorted lists, the three writes.     *)
(***************************************************************************)
EXTENDS Integers, Sequences, FiniteSets, TLC

(***************************************************************************)
(* Characters.  ASCII lists the printable characters 32..126 in code point *)
(* order; a tab (9) stands for the other whitespace str.strip() removes.   *)
(* The grave accent (96) cannot be written in a string of this language    *)
(* and is the entry "GRAVE".                                                *)
(***************************************************************************)
ASCII == <<" ", "!", "\"", "#", "$", "%", "&", "'", "(", ")", "*", "+", ",", "-", ".", "/", "0", "1", "2", "3", "4", "5", "6", "7", "8", "9", ":", ";", "<", "=", ">", "?", "@", "A", "B", "C", "D", "E", "F", "G", "H", "I", "J", "K", "L", "M", "N", "O", "P", "Q", "R", "S", "T", "U", "V", "W", "X", "Y", "Z", "[", "\\", "]", "^", "_", "GRAVE", "a", "b", "c", "d", "e", "f", "g", "h", "i", "j", "k", "l", "m", "n", "o", "p", "q", "r", "s", "t", "u", "v", "w", "x", "y", "z", "{", "|", "}", "~">>

Char == {ASCII[i] : i \in 1..Len(ASCII)} \cup {"\t"}

Ord == [c \in Char |-> IF c = "\t" THEN 9 ELSE 31 + (CHOOSE i \in 1..Len(ASCII) : ASCII[i] = c)]

Chr(n) == ASCII[n - 31]

IsSpace(c) == c \in {" ", "\t"}

IsDigit(c) == Ord[c] \in 48..57

IsUpper(c) == Ord[c] \in 65..90

IsLowerAlnum(c) == Ord[c] \in 97..122 \/ IsDigit(c)

Min(a, b) == IF a < b THEN a ELSE b

\* Python's < on str: lexicographic on code points, a proper prefix is smaller.
StrLess(s, t) ==
    LET n == Min(Len(s), Len(t))
    IN  IF \A i \in 1..n : s[i] = t[i] THEN Len(s) < Len(t)
        ELSE LET d == CHOOSE i \in 1..n : s[i] # t[i] /\ \A j \in 1..(i - 1) : s[j] = t[j]
             IN  Ord[s[d]] < Ord[t[d]]

\* s without its leading and its trailing run of characters of drop.
StripChars(s, drop) ==
    IF \A i \in 1..Len(s) : s[i] \in drop THEN <<>>
    ELSE LET first == CHOOSE i \in 1..Len(s) :
                          s[i] \notin drop /\ \A j \in 1..(i - 1) : s[j] \in drop
             last == CHOOSE i \in 1..Len(s) :
                          s[i] \notin drop /\ \A j \in (i + 1)..Len(s) : s[j] \in drop
         IN  SubSeq(s, first, last)

\* str.strip(): leading and trailing whitespace removed.
Strip(s) == StripChars(s, {" ", "\t"})

\* The concatenation of pieces[lo], ..., pieces[hi].
RECURSIVE Join(_, _, _)
Join(pieces, lo, hi) ==
    IF lo > hi THEN <<>>
    ELSE IF lo = hi THEN pieces[lo]
    ELSE LET mid == (lo + hi) \div 2
         IN  Join(pieces, lo, mid) \o Join(pieces, mid + 1, hi)

\* str.lower() on the characters of ASCII.
Lower(s) == [i \in 1..Len(s) |-> IF IsUpper(s[i]) THEN Chr(Ord[s[i]] + 32) ELSE s[i]]

\* s.replace("&", " and ")
ReplaceAmp(s) ==
    Join([i \in 1..Len(s) |-> IF s[i] = "&" THEN <<" ","a","n","d"," ">> ELSE <<s[i]>>], 1, Len(s))

\* re.sub(r"[^a-z0-9]+", "-", s): every maximal run of other characters
\* becomes one hyphen (written where the run starts).
CollapseRuns(s) ==
    Join([i \in 1..Len(s) |->
             IF IsLowerAlnum(s[i]) THEN <<s[i]>>
             ELSE IF i = 1 \/ IsLowerAlnum(s[i - 1]) THEN <<"-">>
             ELSE <<>>], 1, Len(s))

\* re.sub(r"(^-+|-+$)", "", s): the leading and the trailing run of hyphens
\* removed (s holds no newline here, so $ is the end of s).
StripHyphens(s) == StripChars(s, {"-"})

SlugLimit == 180

\* s[:180]
Truncate(s) == SubSeq(s, 1, Min(Len(s), SlugLimit))

slugify_patch_name(name) ==
    Truncate(StripHyphens(CollapseRuns(ReplaceAmp(Lower(name)))))

(***************************************************************************)
(* parse_release_date.                                                     *)
(***************************************************************************)
AllDigits(s) == \A i \in 1..Len(s) : IsDigit(s[i])

\* re.match(r"^(\d{1,2})/(\d{1,2})/(\d{4})$", v): the groups <<mm, dd, yyyy>>
\* of the match, or <<>> when v does not match.  A digit is never a slash,
\* so at most one pair of group lengths fits.
DateMatch(v) ==
    LET fits == {ab \in {1, 2} \X {1, 2} :
                    /\ Len(v) = ab[1] + ab[2] + 6
                    /\ AllDigits(SubSeq(v, 1, ab[1]))
                    /\ v[ab[1] + 1] = "/"
                    /\ AllDigits(SubSeq(v, ab[1] + 2, ab[1] + ab[2] + 1))
                    /\ v[ab[1] + ab[2] + 2] = "/"
                    /\ AllDigits(SubSeq(v, ab[1] + ab[2] + 3, Len(v)))}
    IN  IF fits = {} THEN <<>>
        ELSE LET ab == CHOOSE x \in fits : TRUE
             IN  << SubSeq(v, 1, ab[1]),
                    SubSeq(v, ab[1] + 2, ab[1] + ab[2] + 1),
                    SubSeq(v, ab[1] + ab[2] + 3, Len(v)) >>

\* int() of a run of digits.
RECURSIVE ToInt(_)
ToInt(s) == IF s = <<>> THEN 0 ELSE 10 * ToInt(SubSeq(s, 1, Len(s) - 1)) + (Ord[s[Len(s)]] - 48)

MINYEAR == 1

MAXYEAR == 9999

\* datetime._is_leap
IsLeap(y) == y % 4 = 0 /\ (y % 100 # 0 \/ y % 400 = 0)

\* datetime._days_in_month
DaysInMonth(y, m) ==
    IF m = 2 /\ IsLeap(y) THEN 29
    ELSE <<31, 28, 31, 30, 31, 30, 31, 31, 30, 31, 30, 31>>[m]

\* date(y, m, d) does not raise ValueError
DateOk(y, m, d) ==
    /\ MINYEAR <= y /\ y <= MAXYEAR
    /\ 1 <= m /\ m <= 12
    /\ 1 <= d /\ d <= DaysInMonth(y, m)

\* "%0*d": n in decimal, zero-padded to w digits.
RECURSIVE Pad(_, _)
Pad(n, w) == IF w = 0 THEN <<>> ELSE Pad(n \div 10, w - 1) \o <<Chr(48 + (n % 10))>>

\* date.isoformat()
IsoFormat(y, m, d) == Pad(y, 4) \o <<"-">> \o Pad(m, 2) \o <<"-">> \o Pad(d, 2)

\* parse_release_date without the .strip() of line 50.
parse_release_date_unstripped(value) ==
    LET m == DateMatch(value)
    IN  IF m = <<>> THEN <<>>
        ELSE IF DateOk(ToInt(m[3]), ToInt(m[1]), ToInt(m[2]))
        THEN IsoFormat(ToInt(m[3]), ToInt(m[1]), ToInt(m[2]))
        ELSE <<>>

parse_release_date(value) ==
    LET m == DateMatch(Strip(value))
    IN  IF m = <<>> THEN <<>>
        ELSE LET mm == ToInt(m[1])
                 dd == ToInt(m[2])
                 yyyy == ToInt(m[3])
             IN  IF DateOk(yyyy, mm, dd) THEN IsoFormat(yyyy, mm, dd) ELSE <<>>

(***************************************************************************)
(* JSON values as json.loads returns them: a str, None, a list, a dict.    *)
(* A dict is a function from its keys; a key it lacks is not in its        *)
(* DOMAIN.                                                                 *)
(***************************************************************************)
JStr(s) == [k |-> "str", s |-> s]

JNull == [k |-> "null"]

JList(items) == [k |-> "list", items |-> items]

JDict(f) == [k |-> "dict", f |-> f]

IsDict(v) == v.k = "dict"

IsList(v) == v.k = "list"

\* d.get(key, default)
Get(d, key, default) == IF key \in DOMAIN d.f THEN d.f[key] ELSE default

\* str(v) of a str or of None
PyStr(v) == IF v.k = "str" THEN v.s ELSE <<"N","o","n","e">>

BASE_URL == <<"h","t","t","p","s",":","/","/","c","e","d","d","c",".","g","i","t","h","u","b",".","i","o","/","s","i","m","p","l","e","-","p","a","t","c","h","-","f","i","n","d","e","r","/">>

UrlEntry(loc, lastmod) == [loc |-> loc, lastmod |-> lastmod]

\* value.split(",")
SplitCommas(value) ==
    LET commas == {i \in 1..Len(value) : value[i] = ","}
        starts == {1} \cup {i + 1 : i \in commas}
        EndOf(b) == IF \E i \in commas : i >= b
                    THEN (CHOOSE i \in commas : i >= b /\ \A j \in commas : j >= b => i <= j) - 1
                    ELSE Len(value)
        Nth(n) == CHOOSE b \in starts : Cardinality({x \in starts : x < b}) = n - 1
    IN  [n \in 1..Cardinality(starts) |-> SubSeq(value, Nth(n), EndOf(Nth(n)))]

tokenize_csv(value) ==
    LET parts == SplitCommas(value)
    IN  Join([n \in 1..Len(parts) |->
                 IF Strip(parts[n]) # <<>> THEN <<Strip(parts[n])>> ELSE <<>>], 1, Len(parts))

HexDigits == <<"0","1","2","3","4","5","6","7","8","9","A","B","C","D","E","F">>

\* The characters urllib.parse.quote never encodes.
IsUnreserved(c) ==
    \/ Ord[c] \in 48..57 \/ Ord[c] \in 65..90 \/ Ord[c] \in 97..122
    \/ c \in {"_", ".", "-", "~"}

\* quote(s, safe=""): every other character as % and the two upper-case hex
\* digits of its byte.
quote(s) ==
    Join([i \in 1..Len(s) |->
             IF IsUnreserved(s[i]) THEN <<s[i]>>
             ELSE <<"%", HexDigits[(Ord[s[i]] \div 16) + 1], HexDigits[(Ord[s[i]] % 16) + 1]>>],
         1, Len(s))

\* html.escape(s, quote=False)
escape(s) ==
    Join([i \in 1..Len(s) |->
             IF s[i] = "&" THEN <<"&","a","m","p",";">>
             ELSE IF s[i] = "<" THEN <<"&","l","t",";">>
             ELSE IF s[i] = ">" THEN <<"&","g","t",";">>
             ELSE <<s[i]>>], 1, Len(s))

\* A file that may be missing or hold text that is not JSON.
Missing == [k |-> "missing"]

NotJson == [k |-> "notjson"]

\* read_dataset_lastmod: meta is the content of patches.meta.json.
read_dataset_lastmod(meta) ==
    IF meta = Missing THEN <<>>
    ELSE IF meta = NotJson \/ ~IsDict(meta) THEN <<>>
    ELSE Strip(PyStr(Get(meta, "updated_at_utc", JStr(<<>>))))

\* lines 72-73: the groups of the dataset
GroupsOf(raw) ==
    LET g == IF IsDict(raw) THEN Get(raw, "Product", JNull) ELSE JList(<<>>)
    IN  IF IsList(g) THEN g.items ELSE <<>>

\* lines 80-81: the patches of a group
PatchesOf(g) ==
    LET p == IF IsDict(g) THEN Get(g, "patches", JNull) ELSE JList(<<>>)
    IN  IF IsList(p) THEN p.items ELSE <<>>

\* dict lookups and stores on product_lastmods and patch_entries
Lookup(d, key, default) == IF key \in DOMAIN d THEN d[key] ELSE default

Store(d, key, v) == [x \in DOMAIN d \cup {key} |-> IF x = key THEN v ELSE d[x]]

EmptyDict == [x \in {} |-> <<>>]

\* lines 89-95: one product of one record
ProductStep(pl, prod, rel, dataset_lastmod) ==
    IF prod = <<>> THEN pl
    ELSE LET prev == Lookup(pl, prod, <<>>)
         IN  IF rel # <<>> /\ (prev = <<>> \/ StrLess(prev, rel)) THEN Store(pl, prod, rel)
             ELSE IF prev = <<>> /\ dataset_lastmod # <<>> THEN Store(pl, prod, dataset_lastmod)
             ELSE pl

\* lines 88-95: the products of one record, in order
RECURSIVE ProductLoop(_, _, _, _)
ProductLoop(pl, prods, rel, dataset_lastmod) ==
    IF prods = <<>> THEN pl
    ELSE ProductLoop(ProductStep(pl, Head(prods), rel, dataset_lastmod),
                     Tail(prods), rel, dataset_lastmod)

\* line 103
PatchLoc(pid, pn) == BASE_URL \o <<"?","p","i","d","=">> \o quote(pid) \o <<"&","p","n","=">> \o quote(pn)

\* PatchStore with line 108 left out: the first entry of a URL is kept.
PatchStoreFirstWins(pe, loc, lastmod) ==
    IF loc \notin DOMAIN pe THEN Store(pe, loc, UrlEntry(loc, lastmod)) ELSE pe

\* PatchStore without the comparison of line 108: the last entry of a URL
\* is kept.
PatchStoreLastWins(pe, loc, lastmod) == Store(pe, loc, UrlEntry(loc, lastmod))

\* lines 105-109: the entry kept for loc
PatchStore(pe, loc, lastmod) ==
    IF loc \notin DOMAIN pe THEN Store(pe, loc, UrlEntry(loc, lastmod))
    ELSE IF lastmod # <<>> /\ (pe[loc].lastmod = <<>> \/ StrLess(pe[loc].lastmod, lastmod))
    THEN Store(pe, loc, UrlEntry(loc, lastmod))
    ELSE pe

\* lines 97-109: the patch entry of one record
PatchStep(pe, p, rel, dataset_lastmod) ==
    LET pid == Strip(PyStr(Get(p, "QFE_ID", JStr(<<>>))))
        name == Strip(PyStr(Get(p, "Name", JStr(<<>>))))
    IN  IF pid = <<>> THEN pe
        ELSE PatchStore(pe, PatchLoc(pid, slugify_patch_name(name)),
                        IF rel # <<>> THEN rel ELSE dataset_lastmod)

\* lines 83-109: the body of the inner loop on entry p, on the two dicts
LoopBody(st, p, dataset_lastmod) ==
    IF ~IsDict(p) THEN st
    ELSE LET rel == parse_release_date(PyStr(Get(p, "ReleaseDate", JStr(<<>>))))
         IN  [pl |-> ProductLoop(st.pl, tokenize_csv(PyStr(Get(p, "Products", JStr(<<>>)))),
                                 rel, dataset_lastmod),
              pe |-> PatchStep(st.pe, p, rel, dataset_lastmod)]

\* sorted(keys)
RECURSIVE Sorted(_)
Sorted(S) ==
    IF S = {} THEN <<>>
    ELSE LET m == CHOOSE x \in S : \A y \in S \ {x} : StrLess(x, y)
         IN  <<m>> \o Sorted(S \ {m})

\* lines 111-116
PageEntries(pl, dataset_lastmod) ==
    LET prods == Sorted(DOMAIN pl)
    IN  <<UrlEntry(BASE_URL, dataset_lastmod)>> \o
        [n \in 1..Len(prods) |->
            UrlEntry(BASE_URL \o <<"?","p","=">> \o quote(prods[n]),
                     IF Lookup(pl, prods[n], <<>>) # <<>> THEN Lookup(pl, prods[n], <<>>)
                     ELSE dataset_lastmod)]

\* line 118
PatchList(pe) ==
    LET locs == Sorted(DOMAIN pe)
    IN  [n \in 1..Len(locs) |-> pe[locs[n]]]

\* write_urlset and write_sitemap_index: the document written, as the kind
\* of its root element and its <url> or <sitemap> blocks; a block has no
\* <lastmod> when lastmod is empty.
Block(e) ==
    IF e.lastmod # <<>> THEN [loc |-> escape(e.loc), lastmod |-> escape(e.lastmod)]
    ELSE [loc |-> escape(e.loc)]

Document(root, entries) ==
    [k |-> root, blocks |-> [n \in 1..Len(entries) |-> Block(entries[n])]]

\* lines 138-141
IndexItems(dataset_lastmod) ==
    << UrlEntry(BASE_URL \o <<"s","i","t","e","m","a","p","-","p","a","g","e","s",".","x","m","l">>, dataset_lastmod),
       UrlEntry(BASE_URL \o <<"s","i","t","e","m","a","p","-","p","a","t","c","h","e","s",".","x","m","l">>, dataset_lastmod) >>

(***************************************************************************)
(* State.  pc is the position in main() (or in the call of a helper);      *)
(* arg and ret are the argument and the result of a helper called alone.   *)
(* raw and meta are the contents of patches.json and patches.meta.json,    *)
(* disk the three output files; the others are build_entries' locals (gi   *)
(* and pj are the positions of its two loops).                             *)
(***************************************************************************)
VARIABLES pc, arg, ret, raw, meta, disk, gi, pj,
          dataset_lastmod, product_lastmods, patch_entries, page_entries, patch_list

locals == <<gi, pj, dataset_lastmod, product_lastmods, patch_entries,
            page_entries, patch_list>>

\* groups (lines 72-73) and patches (lines 80-81) are read and never
\* assigned again: they are functions of raw and of the group reached, gi.
groups == GroupsOf(raw)

patches == IF gi \in 1..Len(groups) THEN PatchesOf(groups[gi]) ELSE <<>>

files == <<raw, meta, disk>>

vars == <<pc, arg, ret, files, locals>>

\* What an earlier run (or nothing) left in an output file.
Old == [k |-> "old"]

\* An output file cut short by a failed write.
Partial == [k |-> "partial"]

LocalsInit ==
    /\ gi = 0 /\ pj = 1
    /\ dataset_lastmod = <<>>
    /\ product_lastmods = EmptyDict /\ patch_entries = EmptyDict
    /\ page_entries = <<>> /\ patch_list = <<>>

DiskInit == disk = [pages |-> Old, patches |-> Old, index |-> Old]

MainIdle == raw = Missing /\ meta = Missing /\ DiskInit /\ LocalsInit

(***************************************************************************)
(* slugify_patch_name called on its own.  A name is a run of RunLens       *)
(* letters followed by a tail of at most MaxTail characters of TailChars:  *)
(* the runs reach across the 180-character limit.                          *)
(***************************************************************************)
MaxTail == 3

TailChars == {"A", "b", "9", "&", "-", " ", "_"}

RunLens == (0..2) \cup ((SlugLimit - 3)..(SlugLimit + 1))

RECURSIVE Strings(_, _)
Strings(alphabet, n) ==
    IF n = 0 THEN {<<>>}
    ELSE LET shorter == Strings(alphabet, n - 1)
         IN  shorter \cup {Append(s, c) : s \in {x \in shorter : Len(x) = n - 1}, c \in alphabet}

Run(c, n) == [i \in 1..n |-> c]

SlugInit ==
    /\ pc = "slug_call"
    /\ \E n \in RunLens, t \in Strings(TailChars, MaxTail) : arg = Run("a", n) \o t
    /\ ret = <<>>
    /\ MainIdle

SlugCall ==
    /\ pc = "slug_call"
    /\ ret' = slugify_patch_name(arg)
    /\ pc' = "slug_done"
    /\ UNCHANGED <<arg, files, locals>>

SpecSlug == SlugInit /\ [][SlugCall]_vars

(***************************************************************************)
(* parse_release_date called on its own, on padding, month, separator,     *)
(* day, separator, year, padding drawn from the sets below.                *)
(***************************************************************************)
MonthTexts == {<<>>, <<"0">>, <<"0","0">>, <<"1">>, <<"2">>, <<"0","2">>, <<"4">>, <<"0","9">>, <<"1","2">>, <<"1","3">>, <<"1","2","3">>, <<"1","a">>}

DayTexts == {<<>>, <<"0">>, <<"1">>, <<"0","5">>, <<"2","8">>, <<"2","9">>, <<"3","0">>, <<"3","1">>, <<"3","2">>, <<"0","3","1">>, <<"x">>, <<"3"," ">>}

YearTexts == {<<>>, <<"2","0","2","4">>, <<"2","0","2","3">>, <<"1","9","0","0">>, <<"2","0","0","0">>, <<"0","0","0","0">>, <<"0","0","0","1">>, <<"9","9","9","9">>, <<"2","4">>, <<"2","0","2","4","4">>, <<"2","0","2","x">>}

SepTexts == {<<"/">>, <<"-">>, <<"/","/">>}

PadTexts == {<<>>, <<" ">>, <<"\t"," ">>}

DateInit ==
    /\ pc = "date_call"
    /\ \E l \in PadTexts, mo \in MonthTexts, s1 \in SepTexts, da \in DayTexts,
          s2 \in SepTexts, ye \in YearTexts, r \in PadTexts :
            arg = l \o mo \o s1 \o da \o s2 \o ye \o r
    /\ ret = <<>>
    /\ MainIdle

DateCall ==
    /\ pc = "date_call"
    /\ ret' = parse_release_date(arg)
    /\ pc' = "date_done"
    /\ UNCHANGED <<arg, files, locals>>

SpecDate == DateInit /\ [][DateCall]_vars

(***************************************************************************)
(* main().  A regular dataset has at most MaxGroups groups and MaxRecords  *)
(* records in all, drawn from Records, and is read with one of the three   *)
(* Stamps as patches.meta.json (none, a date between the release dates, a  *)
(* date after them); the irregular contents of patches.json (unreadable,   *)
(* of another shape, with groups and entries that are no dicts) are read   *)
(* with every content of patches.meta.json.                                *)
(***************************************************************************)
MaxRecords == 3

MaxGroups == 2

R1 == JDict([QFE_ID |-> JStr(<<"K","/","1">>), Name |-> JStr(<<"A","&","b">>),
             Products |-> JStr(<<"P",","," ","Q">>), ReleaseDate |-> JStr(<<"3","/","5","/","2","0","2","4">>)])

R2 == JDict([QFE_ID |-> JStr(<<" ","K","/","1"," ">>), Name |-> JStr(<<"a"," ","a","n","d"," ","B">>),
             Products |-> JStr(<<"P">>), ReleaseDate |-> JStr(<<"1","/","1","/","2","0","2","3">>)])

R3 == JDict([QFE_ID |-> JStr(<<"K","/","1">>), Name |-> JStr(<<"x">>),
             Products |-> JStr(<<" ","P",",",",","R">>), ReleaseDate |-> JStr(<<"2","/","3","0","/","2","0","2","4">>)])

R4 == JDict([Name |-> JStr(<<"x">>), Products |-> JStr(<<"S","&","T">>),
             ReleaseDate |-> JStr(<<"0","2","/","2","9","/","2","0","2","4">>)])

R5 == JDict([QFE_ID |-> JStr(<<"K","/","1">>), Name |-> JStr(<<"X","!">>),
             ReleaseDate |-> JStr(<<"6","/","1","/","2","0","2","3">>)])

Records == {R1, R2, R3, R4, R5}

NotARecord == JStr(<<"n","/","a">>)

Group(items) == JDict([patches |-> JList(items)])

Dataset(gs) == JDict([Product |-> JList(gs)])

\* The number of records of groups of these sizes.
RECURSIVE Total(_)
Total(sizes) == IF sizes = <<>> THEN 0 ELSE Head(sizes) + Total(Tail(sizes))

\* The dataset whose groups have these sizes and hold the records recs, in
\* order.
Regular(sizes, recs) ==
    Dataset([g \in 1..Len(sizes) |->
                Group([j \in 1..sizes[g] |-> recs[Total(SubSeq(sizes, 1, g - 1)) + j]])])

\* A dataset of at most MaxGroups groups, none empty, of at most MaxRecords
\* records in all.
RegularRaw(r) ==
    \E n \in 0..MaxGroups : \E sizes \in [1..n -> 1..MaxRecords] :
        /\ Total(sizes) <= MaxRecords
        /\ \E recs \in [1..Total(sizes) -> Records] : r = Regular(sizes, recs)

IrregularRaws ==
    {Missing, NotJson, JList(<<>>), JDict([Product |-> JNull]),
     Dataset(<<JNull, Group(<<NotARecord, R1>>), JDict([patches |-> JNull]), Group(<<>>),
               Group(<<R3, NotARecord, R5>>), Group(<<R2>>)>>)}

Stamps ==
    {Missing,
     JDict([updated_at_utc |-> JStr(<<" ","2","0","2","3","-","0","6","-","0","1"," ">>)]),
     JDict([updated_at_utc |-> JStr(<<"2","0","2","5","-","0","1","-","0","1">>)])}

MetaFiles ==
    Stamps \cup {NotJson, JList(<<>>), JDict([version |-> JStr(<<"1">>)]),
                 JDict([updated_at_utc |-> JStr(<<"2","0","2","4","-","0","3","-","0","5","T","1","0",":","0","0",":","0","0","Z">>)]),
                 JDict([updated_at_utc |-> JNull])}

Init ==
    /\ pc = "start"
    /\ \/ RegularRaw(raw) /\ meta \in Stamps
       \/ raw \in IrregularRaws /\ meta \in MetaFiles
    /\ DiskInit
    /\ LocalsInit
    /\ arg = <<>> /\ ret = <<>>

\* lines 71-77: json.loads(PATCHES_JSON.read_text()) raises when the file
\* cannot be read or is not JSON, and the run ends there.
ReadInputs ==
    /\ pc = "start"
    /\ IF raw \in {Missing, NotJson}
       THEN /\ pc' = "aborted"
            /\ UNCHANGED locals
       ELSE /\ pc' = "loop"
            /\ dataset_lastmod' = read_dataset_lastmod(meta)
            /\ product_lastmods' = EmptyDict
            /\ patch_entries' = EmptyDict
            /\ UNCHANGED <<gi, pj, page_entries, patch_list>>
    /\ UNCHANGED <<arg, ret, files>>

\* lines 79-81: the next group
NextGroup ==
    /\ pc = "loop"
    /\ pj > Len(patches)
    /\ gi < Len(groups)
    /\ gi' = gi + 1
    /\ pj' = 1
    /\ UNCHANGED <<pc, arg, ret, files, dataset_lastmod, product_lastmods,
                   patch_entries, page_entries, patch_list>>

\* lines 82-109: the next entry of the group
ProcessPatch ==
    /\ pc = "loop"
    /\ pj <= Len(patches)
    /\ LET st == LoopBody([pl |-> product_lastmods, pe |-> patch_entries],
                          patches[pj], dataset_lastmod)
       IN  /\ product_lastmods' = st.pl
           /\ patch_entries' = st.pe
    /\ pj' = pj + 1
    /\ UNCHANGED <<pc, arg, ret, files, gi, dataset_lastmod,
                   page_entries, patch_list>>

\* lines 111-119: build_entries returns
BuildLists ==
    /\ pc = "loop"
    /\ pj > Len(patches)
    /\ gi >= Len(groups)
    /\ page_entries' = PageEntries(product_lastmods, dataset_lastmod)
    /\ patch_list' = PatchList(patch_entries)
    /\ pc' = "write_pages"
    /\ UNCHANGED <<arg, ret, files, gi, pj, dataset_lastmod,
                   product_lastmods, patch_entries>>

\* path.write_text(doc): the file holds doc; or open() fails and the file is
\* untouched; or the write fails after open() has truncated the file.  A
\* failure raises, and the run ends there.
WriteOutcomes == {"written", "open_failed", "write_failed"}

WriteText(file, doc, outcome) ==
    disk' = [disk EXCEPT ![file] = IF outcome = "written" THEN doc
                                   ELSE IF outcome = "open_failed" THEN @
                                   ELSE Partial]

\* line 159
WritePages ==
    /\ pc = "write_pages"
    /\ \E outcome \in WriteOutcomes :
          /\ WriteText("pages", Document("urlset", page_entries), outcome)
          /\ pc' = IF outcome = "written" THEN "write_patches" ELSE "aborted"
    /\ UNCHANGED <<arg, ret, raw, meta, locals>>

\* line 160
WritePatches ==
    /\ pc = "write_patches"
    /\ \E outcome \in WriteOutcomes :
          /\ WriteText("patches", Document("urlset", patch_list), outcome)
          /\ pc' = IF outcome = "written" THEN "write_index" ELSE "aborted"
    /\ UNCHANGED <<arg, ret, raw, meta, locals>>

\* line 161
WriteIndex ==
    /\ pc = "write_index"
    /\ \E outcome \in WriteOutcomes :
          /\ WriteText("index", Document("sitemapindex", IndexItems(dataset_lastmod)), outcome)
          /\ pc' = IF outcome = "written" THEN "done" ELSE "aborted"
    /\ UNCHANGED <<arg, ret, raw, meta, locals>>

\* build_entries alone
BuildNext == ReadInputs \/ NextGroup \/ ProcessPatch \/ BuildLists

Spec == Init /\ [][BuildNext]_vars

\* main()
Next == BuildNext \/ WritePages \/ WritePatches \/ WriteIndex

SpecMain == Init /\ [][Next]_vars

(***************************************************************************)
(* What the properties below speak of.                                     *)
(***************************************************************************)
\* build_entries has just returned.
Built == pc = "write_pages"

\* The entries of the dataset, group after group.
FlatOf(gs) == Join([g \in 1..Len(gs) |-> PatchesOf(gs[g])], 1, Len(gs))

\* The positions, in the entries es, of the structured records.
RecordAt(es) == {i \in 1..Len(es) : IsDict(es[i])}

Field(p, key) == PyStr(Get(p, key, JStr(<<>>)))

RelOf(p) == parse_release_date(Field(p, "ReleaseDate"))

PidOf(p) == Strip(Field(p, "QFE_ID"))

SlugOf(p) == slugify_patch_name(Strip(Field(p, "Name")))

UrlOf(p) == PatchLoc(PidOf(p), SlugOf(p))

\* A value computed once for each entry: the tuple of F(es[i]), <<>> where
\* the entry is not a structured record.
PerRecord(es, F(_)) == [i \in 1..Len(es) |-> IF IsDict(es[i]) THEN F(es[i]) ELSE <<>>] \o <<>>

\* The product names of a record: the comma-split, trimmed, non-empty
\* pieces of its Products field.
ProductsOf(p) ==
    LET parts == SplitCommas(Field(p, "Products"))
    IN  {Strip(parts[n]) : n \in 1..Len(parts)} \ {<<>>}

ProductUrl(prod) == BASE_URL \o <<"?","p","=">> \o quote(prod)

\* A record's candidate date: its release date if valid, else the stamp.
Candidate(p, stamp) == IF RelOf(p) # <<>> THEN RelOf(p) ELSE stamp

\* The greatest string of a non-empty set, by string comparison.
StrMax(S) == CHOOSE x \in S : \A y \in S : ~StrLess(x, y)

DigitChars == {"0", "1", "2", "3", "4", "5", "6", "7", "8", "9"}

\* YYYY-MM-DD
IsIsoDate(s) ==
    /\ Len(s) = 10
    /\ s[5] = "-" /\ s[8] = "-"
    /\ \A i \in {1, 2, 3, 4, 6, 7, 9, 10} : s[i] \in DigitChars

\* build_entries as a function of the entries and the stamp: the loop body
\* folded over the entries, then the two sorted lists.
RECURSIVE Fold(_, _, _)
Fold(st, es, stamp) ==
    IF es = <<>> THEN st ELSE Fold(LoopBody(st, Head(es), stamp), Tail(es), stamp)

Result(es, stamp) ==
    LET st == Fold([pl |-> EmptyDict, pe |-> EmptyDict], es, stamp)
    IN  [pages |-> PageEntries(st.pl, stamp), patches |-> PatchList(st.pe)]

Remove(s, i) == SubSeq(s, 1, i - 1) \o SubSeq(s, i + 1, Len(s))

Swap(s, i, j) == [n \in 1..Len(s) |-> IF n = i THEN s[j] ELSE IF n = j THEN s[i] ELSE s[n]]

(***************************************************************************)
(* C1.  The pages list is the site root followed by exactly one entry for  *)
(* each distinct non-empty product name of the Products fields of the      *)
(* structured records, in ascending order of product name, none missing.   *)
(* The code adds a product only with a date to give it: with an empty      *)
(* stamp, the products of undated records are missing.                     *)
(***************************************************************************)
C1_PagesListEveryProduct ==
    Built =>
        LET es == FlatOf(groups)
            prods == Sorted(UNION {ProductsOf(es[i]) : i \in RecordAt(es)})
        IN  [n \in 1..Len(page_entries) |-> page_entries[n].loc]
                = <<BASE_URL>> \o [n \in 1..Len(prods) |-> ProductUrl(prods[n])]

(***************************************************************************)
(* C2.  All records that share the same non-empty QFE_ID collapse to       *)
(* exactly one entry of the patches list, whose lastmod is the greatest of *)
(* their candidate dates.  As stated this fails: the key of an entry is    *)
(* its URL, which also holds the slug of Name.                             *)
(***************************************************************************)
C2_SameIdOneEntry ==
    Built =>
        LET es == FlatOf(groups)
        IN  \A i \in RecordAt(es) :
                PidOf(es[i]) # <<>> =>
                    LET same == {j \in RecordAt(es) : PidOf(es[j]) = PidOf(es[i])}
                        hits == {n \in 1..Len(patch_list) :
                                    patch_list[n].loc \in {UrlOf(es[j]) : j \in same}}
                    IN  /\ Cardinality(hits) = 1
                        /\ \A n \in hits :
                              patch_list[n].lastmod
                                  = StrMax({Candidate(es[j], dataset_lastmod) : j \in same})

(***************************************************************************)
(* C2, amended.  All records that share the same non-empty QFE_ID and the  *)
(* same slug of Name collapse to exactly one entry of the patches list,    *)
(* whose lastmod is the greatest of their candidate dates.                 *)
(***************************************************************************)
C2_SameIdAndSlugOneEntry ==
    Built =>
        LET es == FlatOf(groups)
            pid == PerRecord(es, LAMBDA p : PidOf(p))
            slug == PerRecord(es, LAMBDA p : SlugOf(p))
            cand == PerRecord(es, LAMBDA p : Candidate(p, dataset_lastmod))
        IN  \A i \in RecordAt(es) :
                pid[i] # <<>> =>
                    LET same == {j \in RecordAt(es) : pid[j] = pid[i] /\ slug[j] = slug[i]}
                        loc == PatchLoc(pid[i], slug[i])
                        hits == {n \in 1..Len(patch_list) : patch_list[n].loc = loc}
                    IN  /\ Cardinality(hits) = 1
                        /\ \A n \in hits :
                              patch_list[n].lastmod = StrMax({cand[j] : j \in same})

\* Two records in different groups, with QFE_ID fields that differ only in
\* whitespace, Names of the same slug and different dates, have collapsed.
C2_Witness ==
    /\ Built
    /\ Len(patch_list) = 1
    /\ \E g, h \in 1..Len(groups) : \E i \in 1..Len(PatchesOf(groups[g])) :
         \E j \in 1..Len(PatchesOf(groups[h])) :
            LET p == PatchesOf(groups[g])[i]
                q == PatchesOf(groups[h])[j]
            IN  /\ g # h /\ IsDict(p) /\ IsDict(q)
                /\ Field(p, "QFE_ID") # Field(q, "QFE_ID")
                /\ Field(p, "Name") # Field(q, "Name")
                /\ PidOf(p) = PidOf(q) /\ PidOf(p) # <<>>
                /\ SlugOf(p) = SlugOf(q)
                /\ StrLess(RelOf(p), RelOf(q)) /\ RelOf(p) # <<>>
                /\ patch_list[1].lastmod = RelOf(q)

(***************************************************************************)
(* C3.  Every lastmod of the pages list, of the patches list and of the    *)
(* sitemap index is empty (no <lastmod>) or of the form YYYY-MM-DD.  The   *)
(* code passes updated_at_utc through as it is.                            *)
(***************************************************************************)
C3_LastmodIsoOrEmpty ==
    /\ \A n \in 1..Len(page_entries) :
          page_entries[n].lastmod = <<>> \/ IsIsoDate(page_entries[n].lastmod)
    /\ \A n \in 1..Len(patch_list) :
          patch_list[n].lastmod = <<>> \/ IsIsoDate(patch_list[n].lastmod)
    /\ disk.index.k = "sitemapindex" =>
          \A n \in 1..Len(disk.index.blocks) :
              "lastmod" \in DOMAIN disk.index.blocks[n] =>
                  IsIsoDate(disk.index.blocks[n].lastmod)

(***************************************************************************)
(* C4.  The lastmod of a product's pages entry is the greatest valid       *)
(* release date of the records that list the product, whatever their       *)
(* order and the stamp, and the stamp only when none of them has a valid   *)
(* release date.                                                           *)
(***************************************************************************)
C4_ProductLastmodIsMaxRelease ==
    Built =>
        LET es == FlatOf(groups)
        IN  \A i \in RecordAt(es) : \A prod \in ProductsOf(es[i]) :
                LET dated == {RelOf(es[j]) : j \in {k \in RecordAt(es) : prod \in ProductsOf(es[k])}}
                                 \ {<<>>}
                IN  \A n \in 1..Len(page_entries) :
                        page_entries[n].loc = ProductUrl(prod) =>
                            page_entries[n].lastmod
                                = IF dated # {} THEN StrMax(dated) ELSE dataset_lastmod

(***************************************************************************)
(* C6.  A record without a QFE_ID (absent, or empty after trimming) is     *)
(* dropped: both lists are those of the dataset with the record removed.   *)
(***************************************************************************)
C6_NoIdRecordIsDropped ==
    Built =>
        LET es == FlatOf(groups)
        IN  \A i \in RecordAt(es) :
                PidOf(es[i]) = <<>> =>
                    Result(Remove(es, i), dataset_lastmod)
                        = [pages |-> page_entries, patches |-> patch_list]

(***************************************************************************)
(* C9.  The patches list holds exactly one entry per distinct patch URL of *)
(* the records with a non-empty QFE_ID, in strictly ascending order of     *)
(* URL, and the lastmod of an entry is the greatest, by string comparison, *)
(* of the candidates of the records with that URL.                         *)
(***************************************************************************)
C9_PatchesList ==
    Built =>
        LET es == FlatOf(groups)
            withId == {i \in RecordAt(es) : PidOf(es[i]) # <<>>}
            url == PerRecord(es, LAMBDA p : UrlOf(p))
            cand == PerRecord(es, LAMBDA p : Candidate(p, dataset_lastmod))
            urls == {url[i] : i \in withId}
        IN  /\ Len(patch_list) = Cardinality(urls)
            /\ {patch_list[n].loc : n \in 1..Len(patch_list)} = urls
            /\ \A n \in 1..(Len(patch_list) - 1) :
                  StrLess(patch_list[n].loc, patch_list[n + 1].loc)
            /\ \A n \in 1..Len(patch_list) :
                  patch_list[n].lastmod
                      = StrMax({cand[i] : i \in {k \in withId : url[k] = patch_list[n].loc}})

\* Three records with an id have given two entries: two of them share a
\* URL, and the entry kept is not the candidate of the last one.
C9_Witness ==
    /\ Built
    /\ Len(patch_list) = 2
    /\ LET es == FlatOf(groups)
       IN  /\ Cardinality({i \in RecordAt(es) : PidOf(es[i]) # <<>>}) = 3
           /\ \E i, j \in RecordAt(es) :
                 /\ i < j
                 /\ PidOf(es[i]) # <<>>
                 /\ UrlOf(es[i]) = UrlOf(es[j])
                 /\ StrLess(Candidate(es[j], dataset_lastmod), Candidate(es[i], dataset_lastmod))
                 /\ \E n \in 1..2 : patch_list[n] = UrlEntry(UrlOf(es[i]),
                                                             Candidate(es[i], dataset_lastmod))

(***************************************************************************)
(* C10.  The result of build_entries does not depend on the order of the   *)
(* input: exchanging two groups, or two records of a group, gives the same *)
(* two lists (every permutation of the groups and of the records inside    *)
(* them is a product of such exchanges).                                   *)
(***************************************************************************)
C10_OrderIndependent ==
    Built =>
        LET now == [pages |-> page_entries, patches |-> patch_list]
        IN  /\ \A g, h \in 1..Len(groups) :
                  Result(FlatOf(Swap(groups, g, h)), dataset_lastmod) = now
            /\ \A g \in 1..Len(groups) : \A i, j \in 1..Len(PatchesOf(groups[g])) :
                  Result(FlatOf([groups EXCEPT ![g] = Group(Swap(PatchesOf(groups[g]), i, j))]),
                         dataset_lastmod) = now

(***************************************************************************)
(* C8.  An I/O error aborts the run with no partial write: after an        *)
(* aborted run none of the three output files has been changed.            *)
(***************************************************************************)
C8_AbortLeavesOutputsUnchanged ==
    pc = "aborted" => disk = [pages |-> Old, patches |-> Old, index |-> Old]

(***************************************************************************)
(* C5.  The slug holds only lower-case letters, digits and hyphens,        *)
(* neither starts nor ends with a hyphen, and has at most 180 characters.  *)
(* The code strips the hyphens before it truncates: a slug cut at a hyphen *)
(* ends with it.                                                           *)
(***************************************************************************)
SlugAlphabet ==
    {"a", "b", "c", "d", "e", "f", "g", "h", "i", "j", "k", "l", "m", "n", "o", "p", "q",
     "r", "s", "t", "u", "v", "w", "x", "y", "z", "-"} \cup DigitChars

C5_SlugWellFormed ==
    pc = "slug_done" =>
        /\ \A i \in 1..Len(ret) : ret[i] \in SlugAlphabet
        /\ ret # <<>> => ret[1] # "-" /\ ret[Len(ret)] # "-"
        /\ Len(ret) <= 180

(***************************************************************************)
(* C7.  parse_release_date returns, for a string of the form M/D/YYYY (a   *)
(* month and a day of one or two digits, a year of four, whitespace around *)
(* them allowed) that names a real calendar date, that date as YYYY-MM-DD, *)
(* zero-padded; for every other string it returns the empty string.  The   *)
(* calendar has no year 0.                                                 *)
(***************************************************************************)
DigitValue(c) == CHOOSE n \in 0..9 : <<"0","1","2","3","4","5","6","7","8","9">>[n + 1] = c

\* The number a run of digits writes, most significant digit first.
RECURSIVE Number(_)
Number(s) ==
    IF s = <<>> THEN 0 ELSE DigitValue(Head(s)) * (10 ^ (Len(s) - 1)) + Number(Tail(s))

Slashes(v) == {i \in 1..Len(v) : v[i] = "/"}

\* v is one or two digits, a slash, one or two digits, a slash, four digits.
IsMDY(v) ==
    /\ Cardinality(Slashes(v)) = 2
    /\ \A i \in (1..Len(v)) \ Slashes(v) : v[i] \in DigitChars
    /\ LET a == CHOOSE i \in Slashes(v) : \A j \in Slashes(v) : i <= j
           b == CHOOSE i \in Slashes(v) : \A j \in Slashes(v) : j <= i
       IN  /\ a - 1 \in {1, 2}
           /\ b - a - 1 \in {1, 2}
           /\ Len(v) - b = 4

MonthOf(v) == Number(SubSeq(v, 1, (CHOOSE i \in Slashes(v) : \A j \in Slashes(v) : i <= j) - 1))

DayOf(v) ==
    Number(SubSeq(v, (CHOOSE i \in Slashes(v) : \A j \in Slashes(v) : i <= j) + 1,
                     (CHOOSE i \in Slashes(v) : \A j \in Slashes(v) : j <= i) - 1))

YearOf(v) == Number(SubSeq(v, Len(v) - 3, Len(v)))

\* Thirty days hath September, April, June and November.
IsRealDate(y, m, d) ==
    /\ y >= 1 /\ m \in 1..12 /\ d >= 1
    /\ d <= IF m \in {4, 6, 9, 11} THEN 30
            ELSE IF m # 2 THEN 31
            ELSE IF y % 400 = 0 \/ (y % 4 = 0 /\ y % 100 # 0) THEN 29
            ELSE 28

\* The parts of s that are left when whitespace around them is set aside.
Cores(s) ==
    {SubSeq(s, i, j) : i \in {k \in 1..Len(s) : \A n \in 1..(k - 1) : IsSpace(s[n])},
                       j \in {k \in 1..Len(s) : \A n \in (k + 1)..Len(s) : IsSpace(s[n])}}

\* The strings of the form M/D/YYYY with whitespace around that s is, if
\* any, that name a real date.
DatesNamed(s) ==
    {v \in Cores(s) : IsMDY(v) /\ IsRealDate(YearOf(v), MonthOf(v), DayOf(v))}

C7_ParseReleaseDate ==
    pc = "date_done" =>
        IF DatesNamed(arg) = {} THEN ret = <<>>
        ELSE \A v \in DatesNamed(arg) :
                /\ IsIsoDate(ret)
                /\ Number(SubSeq(ret, 1, 4)) = YearOf(v)
                /\ Number(SubSeq(ret, 6, 7)) = MonthOf(v)
                /\ Number(SubSeq(ret, 9, 10)) = DayOf(v)

\* A leap day, written with a one-digit month between whitespace, has been
\* parsed.
C7_Witness ==
    /\ pc = "date_done"
    /\ arg # Strip(arg)
    /\ Len(Strip(arg)) = 9
    /\ ret = <<"2","0","2","4","-","0","2","-","2","9">>

=============================================================================
